---- MODULE Spec2Model ----
(***************************************************************************)
(* Model of the ADF pipeline monitoring agent: the SQLite context store,   *)
(* the polling loop of MonitoringAgent (poll / process_failures), the      *)
(* decision validation of DecisionLogicAgent.make_decision and the rerun   *)
(* trigger of TriggerAgent.execute_decision.                               *)
(*                                                                         *)
(* SQL NULL / Python None is "None" for text columns and <<>> for the      *)
(* integer column retry_count (a stored integer n is <<n>>).  The          *)
(* last_updated column is a wall-clock timestamp and is not modelled.      *)
(***************************************************************************)
EXTENDS Integers, Sequences, FiniteSets, TLC

\* ---------------------------------------------------------------- bounds
MaxThreshold == 2
MaxRuns == 2
NumRuns == 1
\* created counts the createRun requests sent for a run since the start, up
\* to MaxCreated
MaxCreated == 1

\* ------------------------------------------------------------- constants
max_retries == 3

RunNames == <<"R1", "R2", "R3">>
RunIds == {RunNames[i] : i \in 1..NumRuns}
Thresholds == 0..MaxThreshold
None == "None"
SqlNull == <<>>
PipelineName == "P1"
Activities == {None, "CopyData"}
StatusesWithoutRetrying == {"succeeded", "failed_no_retry", "superseded"}
SkipStatuses == {"retrying", "succeeded", "failed_no_retry", "superseded"}
KnownActions == {"full_rerun", "partial_rerun", "no_rerun"}
AcceptedCodes == {200, 201, 202}

\* Program state: the configured threshold, the pipeline_runs table, the
\* position of the polling loop, the failures list of the current cycle and
\* the locals of process_failures / make_decision.
\* Observation state: scan (what the last classification read and decided),
\* cyc (per-run effects of the current cycle), pass (the current or last
\* iteration of process_failures), accepted (whether a createRun referencing
\* the run was accepted: "no", "now" = in this cycle, "before" = in an
\* earlier cycle, with no Succeeded report since).
VARIABLES RETRY_THRESHOLD, store, pc, failures, retries_left, attempt,
          ai_result, scan, cyc, pass, accepted, created,
          call, lock, th, base, fb

vars == <<RETRY_THRESHOLD, store, pc, failures, retries_left, attempt,
          ai_result, scan, cyc, pass, accepted, created, call, lock, th,
          base, fb>>

\* the variables of the agents' loop, the store excepted
agentVars == <<RETRY_THRESHOLD, pc, failures, retries_left, attempt,
               ai_result, scan, cyc, pass, accepted, created>>

\* call: the last ContextStoreSQLite method called directly on the store and
\* the table before it; lock, th, base: the store's threading.Lock, the
\* callers' threads and the table when the threads started
storeVars == <<call, lock, th, base>>

\* fb: the last call of FeedbackAgent.process_decision_outcome, alone or
\* after execute_decision as in main.py's loop body, and the table before it

\* ---------------------------------------------------- ContextStoreSQLite
\* Python's `x or d` on a value read from the retry_count column
PyOr(x, d) == IF x = SqlNull \/ x = <<0>> THEN d ELSE x[1]

create_or_update_run(st, run_id, pipeline_id, status, retry_count) ==
    [r \in DOMAIN st \cup {run_id} |->
        IF r = run_id
        THEN [pipeline_id |-> pipeline_id, retry_count |-> <<retry_count>>,
              status |-> status]
        ELSE st[r]]

get_retry_count_default_two(st, run_id) ==
    IF run_id \in DOMAIN st THEN st[run_id].retry_count ELSE <<2>>

get_retry_count(st, run_id) ==
    IF run_id \in DOMAIN st THEN st[run_id].retry_count
    ELSE <<RETRY_THRESHOLD>>

set_retry_count(st, run_id, count) ==
    [r \in DOMAIN st |->
        IF r = run_id THEN [st[r] EXCEPT !.retry_count = <<count>>]
        ELSE st[r]]

update_status_no_insert(st, run_id, status) ==
    [r \in DOMAIN st |->
        IF r = run_id THEN [st[r] EXCEPT !.status = status] ELSE st[r]]

update_status(st, run_id, status) ==
    IF run_id \in DOMAIN st
    THEN [st EXCEPT ![run_id].status = status]
    ELSE [r \in DOMAIN st \cup {run_id} |->
            IF r = run_id
            THEN [pipeline_id |-> None, retry_count |-> SqlNull,
                  status |-> status]
            ELSE st[r]]

get_status(st, run_id) ==
    IF run_id \in DOMAIN st THEN st[run_id].status ELSE None

\* the two SQL statements of update_status: the UPDATE of lines 68-71 (a
\* no-op when the run has no row) and the INSERT of lines 74-77, which
\* leaves retry_count and pipeline_id NULL
sql_update(st, run_id, status) ==
    [r \in DOMAIN st |->
        IF r = run_id THEN [st[r] EXCEPT !.status = status] ELSE st[r]]

sql_insert(st, run_id, status) ==
    [r \in DOMAIN st \cup {run_id} |->
        IF r = run_id
        THEN [pipeline_id |-> None, retry_count |-> SqlNull,
              status |-> status]
        ELSE st[r]]

\* status values the callers write, and the counts they pass
StoreStatuses == {"Succeeded", "retrying", "failed_no_retry",
                  "failed_rerun_error"}

Counts == 0..MaxThreshold

NoCall == [op |-> "none", run_id |-> None, status |-> None,
           count |-> SqlNull, before |-> <<>>, result |-> <<>>]

\* concurrent callers of one store instance and the calls they make
Threads == {"t1", "t2"}

ConcStatuses == {"retrying", "failed_no_retry"}

ConcCounts == {0, 1}

NoOp == [op |-> "none", run_id |-> None, status |-> None, count |-> 0]

StoreOps ==
    [op : {"create_or_update_run"}, run_id : RunIds, status : ConcStatuses,
     count : ConcCounts]
    \cup [op : {"set_retry_count"}, run_id : RunIds, status : {None},
          count : ConcCounts]
    \cup [op : {"update_status"}, run_id : RunIds, status : ConcStatuses,
          count : {0}]

IdleThread == [pc |-> "idle", op |-> NoOp, failed |-> FALSE]

\* the whole method applied to the table
Apply(st, o) ==
    IF o.op = "create_or_update_run"
    THEN create_or_update_run(st, o.run_id, PipelineName, o.status, o.count)
    ELSE IF o.op = "set_retry_count"
    THEN set_retry_count(st, o.run_id, o.count)
    ELSE IF o.op = "update_status"
    THEN update_status(st, o.run_id, o.status)
    ELSE st

\* threading.Lock: acquire returns only when the lock is not held
LockIgnored(l) == TRUE

LockFree(l) == l = None

\* ------------------------------------------------ external inputs (bounded)
\* one entry of the platform's queryPipelineRuns result
\* (entries without a runId are dropped by line 160 before anything is read)
RunEntries == [runId : RunIds, status : {"Failed", "Succeeded"}]

RunLists == UNION {[1..n -> RunEntries] : n \in 0..MaxRuns}

\* what the decision oracle (chat.invoke + response.content) can produce
BothKeys == {"action", "reason"}

OracleOutputs ==
    {[kind |-> "raise", keys |-> {}, action |-> None],
     [kind |-> "text", keys |-> {}, action |-> None],
     [kind |-> "scalar", keys |-> {}, action |-> None],
     [kind |-> "array", keys |-> BothKeys, action |-> None],
     [kind |-> "object", keys |-> {"reason"}, action |-> None],
     [kind |-> "object", keys |-> {"action"}, action |-> "full_rerun"]}
    \cup {[kind |-> "object", keys |-> BothKeys, action |-> a] :
             a \in KnownActions \cup {"retry_all"}}

\* what requests.post(createRun) can produce
NoResponse == [kind |-> "exception", status_code |-> 0, json_ok |-> FALSE]

HttpOutcomes ==
    {NoResponse}
    \cup [kind : {"response"}, status_code : AcceptedCodes \cup {400},
          json_ok : BOOLEAN]

\* ------------------------------------------------------- DecisionLogicAgent
\* json.loads succeeded and both membership tests of line 97 passed
Validates(out) ==
    /\ out.kind \in {"object", "array"}
    /\ BothKeys \subseteq out.keys

\* the loop condition of line 91 (and of the log/sleep guard of line 106)
LoopContinuesOffByOne(a) == a <= max_retries

LoopContinues(a) == a < max_retries

FallbackDecision == [kind |-> "object", action |-> "no_rerun"]

NoDecision == [kind |-> "none", action |-> None]

\* ------------------------------------------------------------ TriggerAgent
CreateRunParamsBoth(action, failure) ==
    LET is_recovery == (action = "partial_rerun") IN
    [referencePipelineRunId |-> failure.run_id,
     isRecovery |-> IF is_recovery THEN "true" ELSE "false",
     startActivityName |->
        IF is_recovery /\ failure.failed_activity # None
        THEN failure.failed_activity ELSE None,
     startFromFailure |->
        IF is_recovery THEN "true" ELSE None]

CreateRunParams(action, failure) ==
    LET is_recovery == (action = "partial_rerun") IN
    [referencePipelineRunId |-> failure.run_id,
     isRecovery |-> IF is_recovery THEN "true" ELSE "false",
     startActivityName |->
        IF is_recovery /\ failure.failed_activity # None
        THEN failure.failed_activity ELSE None,
     startFromFailure |->
        IF is_recovery /\ failure.failed_activity = None
        THEN "true" ELSE None]

\* the runId of the createRun response body (line 72)
NewRunId == "N1"

\* how the store behaves during one pass: it works ("ok"), or a write
\* raises: the first write of the pass only ("raise_once"), every write
\* ("raise"), or only the budget update of monitor.py line 135
\* ("raise_last")
StoreFaults == {"ok", "raise_once", "raise", "raise_last"}

\* store: the table afterwards; requests: the createRun requests sent;
\* outcome: the branch taken ("raised": an exception left the method);
\* new_run_id: the local of line 72; ret: the value returned to the caller
\* (every return of the method is a bare `return` or the end of the body);
\* db: a store fault of "ok", "raise_once" or "raise"
execute_decision(st, decision, failure, token, http, db) ==
    LET run_id == failure.run_id
        action == decision.action
        params == CreateRunParams(action, failure)
        res(st2, reqs, outcome, new_id) ==
            [store |-> st2, requests |-> reqs, outcome |-> outcome,
             new_run_id |-> new_id, ret |-> None]
        \* lines 76-78: the handler's own update_status
        handler(outcome) ==
            IF db = "ok"
            THEN res(update_status(st, run_id, "failed_rerun_exception"),
                     <<params>>, outcome, None)
            ELSE res(st, <<params>>, "raised", None)
        \* an update_status inside the try (lines 69, 74) raised: the
        \* handler's update_status is the next store call
        caught ==
            IF db = "raise_once"
            THEN res(update_status(st, run_id, "failed_rerun_exception"),
                     <<params>>, "store_error", None)
            ELSE res(st, <<params>>, "raised", None)
    IN  IF action = "no_rerun"
        THEN IF db = "ok"
             THEN res(update_status(st, run_id, "failed_no_retry"), <<>>,
                      "no_rerun", None)
             ELSE res(st, <<>>, "raised", None)
        ELSE IF token = "raise"
        THEN res(st, <<>>, "token_error", None)
        ELSE IF http.kind = "exception"
        THEN handler("exception")
        ELSE IF http.status_code \notin AcceptedCodes
        THEN IF db = "ok"
             THEN res(update_status(st, run_id, "failed_rerun_error"),
                      <<params>>, "rejected", None)
             ELSE caught
        ELSE IF ~http.json_ok
        THEN handler("accepted_unparsed")
        ELSE IF db = "ok"
             THEN res(update_status(st, run_id, "retrying"), <<params>>,
                      "accepted", NewRunId)
             ELSE caught

\* ---------------------------------------------------------------- Notifier
\* notify_failure hands one message to send_email; sent counts them
notify_failure_dropped(sent) == sent

notify_failure(sent) == sent + 1

\* --------------------------------------------------------- MonitoringAgent
FailureContext(run_id, failed_activity) ==
    [pipeline_name |-> PipelineName, run_id |-> run_id, status |-> "Failed",
     failed_activity |-> failed_activity]

\* the status written by the success branch of poll (line 166)
SucceededStatus == "Succeeded"

\* One iteration of the `for run in runs` loop of poll (lines 156-186);
\* acc carries the store, the failures list and the observation log, st0 is
\* the store at the start of the cycle.
ClassifyRun(acc, run, activity, st0) ==
    LET st == acc.store
        run_id == run.runId
        db_status == get_status(st, run_id)
        rc_read == get_retry_count(st, run_id)
        entry(verdict, st2) ==
            [runId |-> run_id, status |-> run.status,
             db_status |-> db_status, rc_read |-> rc_read,
             verdict |-> verdict,
             start_status |-> get_status(st0, run_id),
             status_after |-> get_status(st2, run_id),
             rc_after |-> IF run_id \in DOMAIN st2
                          THEN st2[run_id].retry_count ELSE SqlNull]
    IN  IF run.status = "Succeeded"
        THEN LET st2 == create_or_update_run(st, run_id, PipelineName,
                              SucceededStatus, RETRY_THRESHOLD)
             IN [acc EXCEPT !.store = st2,
                            !.scan = Append(@, entry("success", st2))]
        ELSE IF db_status \in SkipStatuses
        THEN [acc EXCEPT !.scan = Append(@, entry("skip_status", st))]
        ELSE IF PyOr(rc_read, RETRY_THRESHOLD) < 1
        THEN [acc EXCEPT !.scan = Append(@, entry("skip_budget", st))]
        ELSE [acc EXCEPT
                !.failures = Append(@, FailureContext(run_id, activity)),
                !.scan = Append(@, entry("emitted", st))]

RECURSIVE ClassifyRuns(_, _, _, _, _)
ClassifyRuns(acc, runs, acts, st0, i) ==
    IF i > Len(runs) THEN acc
    ELSE ClassifyRuns(ClassifyRun(acc, runs[i], acts[i], st0),
                      runs, acts, st0, i + 1)

\* ----------------------------------------------------------- FeedbackAgent
\* the actions a decision handed to process_decision_outcome can carry
FeedbackActions == KnownActions \cup {"success", "retry_all"}

\* ask_user_confirmation sends the request and returns True (line 80)
ask_user_confirmation == TRUE

\* store: the table afterwards; read: the budget read at line 22; asked:
\* a confirmation was requested; alerts: the send_alert calls; raised: an
\* exception left the method (None > 0 is a TypeError)
process_decision_outcome(st, action, run_id) ==
    LET retry_count == get_retry_count(st, run_id)
        res(st2, asked, alerts, raised) ==
            [store |-> st2, read |-> retry_count, asked |-> asked,
             alerts |-> alerts, raised |-> raised]
    IN  IF action \in {"full_rerun", "partial_rerun"}
        THEN IF retry_count = <<RETRY_THRESHOLD>>
             THEN IF ~ask_user_confirmation
                  THEN res(update_status(set_retry_count(st, run_id, 0),
                                         run_id, "failed_no_retry"),
                           TRUE, 1, FALSE)
                  ELSE res(update_status(
                              set_retry_count(st, run_id,
                                              RETRY_THRESHOLD - 1),
                              run_id, "retrying"),
                           TRUE, 0, FALSE)
             ELSE IF retry_count = SqlNull
             THEN res(st, FALSE, 0, TRUE)
             ELSE IF retry_count[1] > 0
             THEN res(update_status(
                         set_retry_count(st, run_id, retry_count[1] - 1),
                         run_id, "retrying"),
                      FALSE, 0, FALSE)
             ELSE res(update_status(st, run_id, "failed_no_retry"),
                      FALSE, 1, FALSE)
        ELSE IF action = "no_rerun"
        THEN res(update_status(set_retry_count(st, run_id, 0), run_id,
                               "failed_no_retry"),
                 FALSE, 1, FALSE)
        ELSE IF action = "success"
        THEN res(update_status(set_retry_count(st, run_id, RETRY_THRESHOLD),
                               run_id, "succeeded"),
                 FALSE, 0, FALSE)
        ELSE res(st, FALSE, 0, FALSE)

NoFeedback == [kind |-> "none", run_id |-> None, action |-> None,
               before |-> <<>>, read |-> SqlNull, asked |-> FALSE,
               alerts |-> 0, raised |-> FALSE, requests |-> <<>>]

\* ----------------------------------------------------- observation records
Min(a, b) == IF a < b THEN a ELSE b

ZeroCyc == [createRun |-> 0, skipped |-> FALSE]

NoPass == [run_id |-> None, had_row |-> FALSE, failed_activity |-> None,
           action |-> None, outcome |-> "none", requests |-> <<>>,
           notified |-> 0, new_run_id |-> None, rerun_outcome |-> None,
           fault |-> FALSE]

SucceededIn(sc, r) ==
    \E i \in DOMAIN sc : sc[i].runId = r /\ sc[i].status = "Succeeded"

\* every entry the cycle's result holds for r is a Failed one that was
\* skipped on its stored status
SkippedIn(sc, r) ==
    /\ \E i \in DOMAIN sc : sc[i].runId = r
    /\ \A i \in DOMAIN sc : sc[i].runId = r =>
          /\ sc[i].status = "Failed"
          /\ sc[i].db_status \in
                {"retrying", "succeeded", "failed_no_retry", "superseded"}

\* ------------------------------------------------------------------- Init
Init ==
    /\ RETRY_THRESHOLD \in Thresholds
    /\ store = <<>>
    /\ pc = "poll"
    /\ failures = <<>>
    /\ retries_left = 0
    /\ attempt = 0
    /\ ai_result = NoDecision
    /\ scan = <<>>
    /\ cyc = [r \in RunIds |-> ZeroCyc]
    /\ pass = NoPass
    /\ accepted = [r \in RunIds |-> "no"]
    /\ created = [r \in RunIds |-> 0]
    /\ call = NoCall
    /\ lock = None
    /\ th = [t \in Threads |-> IdleThread]
    /\ base = <<>>
    /\ fb = NoFeedback

\* ---------------------------------------------------------------- actions
\* poll, lines 146-152: token acquisition or the run query raises
PollErrorEscapes ==
    /\ pc = "poll"
    /\ pc' = "escaped"
    /\ pass' = [NoPass EXCEPT !.outcome = "query_failed"]
    /\ UNCHANGED <<RETRY_THRESHOLD, store, failures, retries_left, attempt,
                   ai_result, scan, cyc, accepted>>
    /\ UNCHANGED <<created, storeVars, fb>>

PollError ==
    /\ pc = "poll"
    /\ pc' = "sleep"
    /\ pass' = [NoPass EXCEPT !.outcome = "query_failed"]
    /\ UNCHANGED <<RETRY_THRESHOLD, store, failures, retries_left, attempt,
                   ai_result, scan, cyc, accepted>>
    /\ UNCHANGED <<created, storeVars, fb>>

\* poll, lines 154-190: the query returned `runs`; classify every entry
PollScan(runs, acts) ==
    /\ pc = "poll"
    /\ LET res == ClassifyRuns([store |-> store, failures |-> <<>>,
                                scan |-> <<>>], runs, acts, store, 1)
       IN /\ store' = res.store
          /\ failures' = res.failures
          /\ scan' = res.scan
          /\ pc' = IF res.failures # <<>> THEN "begin" ELSE "sleep"
          /\ cyc' = [r \in RunIds |->
                        [ZeroCyc EXCEPT !.skipped = SkippedIn(res.scan, r)]]
          /\ accepted' = [r \in RunIds |->
                            IF SucceededIn(res.scan, r) THEN "no"
                            ELSE accepted[r]]
          \* get_failed_activity is called for the emitted failures only
          /\ \A i \in DOMAIN runs :
                res.scan[i].verdict # "emitted" => acts[i] = None
    /\ UNCHANGED <<RETRY_THRESHOLD, retries_left, attempt, ai_result, pass>>
    /\ UNCHANGED <<created, storeVars, fb>>

\* poll, lines 151 and 193 (pc = "sleep"), or main's handler after an
\* exception escaped poll (pc = "escaped", main.py lines 38-42, then poll is
\* called again): sleep, then the next cycle starts
Sleep ==
    /\ pc \in {"sleep", "escaped"}
    /\ pc' = "poll"
    /\ scan' = <<>>
    /\ pass' = NoPass
    /\ cyc' = [r \in RunIds |-> ZeroCyc]
    /\ accepted' = [r \in RunIds |->
                      IF accepted[r] = "now" THEN "before" ELSE accepted[r]]
    /\ UNCHANGED <<RETRY_THRESHOLD, store, failures, retries_left, attempt,
                   ai_result>>
    /\ UNCHANGED <<created, storeVars, fb>>

\* the `continue` / end of one iteration of the loop of process_failures
NextFailure ==
    /\ failures' = Tail(failures)
    /\ pc' = IF Tail(failures) # <<>> THEN "begin" ELSE "sleep"
    /\ retries_left' = 0
    /\ attempt' = 0
    /\ ai_result' = NoDecision

\* an exception leaves process_failures and poll: the rest of the cycle's
\* failures is dropped (main.py lines 38-42 log it and sleep)
Escape ==
    /\ failures' = <<>>
    /\ pc' = "escaped"
    /\ retries_left' = 0
    /\ attempt' = 0
    /\ ai_result' = NoDecision

\* process_failures, lines 80-104 and make_decision lines 76-87: budget
\* read, confirmation prompt, knowledge retrieval
ProcessBegin(confirm, knowledge) ==
    /\ pc = "begin"
    /\ LET f == Head(failures)
           run_id == f.run_id
           left == PyOr(get_retry_count(store, run_id), RETRY_THRESHOLD)
           p0 == [NoPass EXCEPT !.run_id = run_id,
                                !.had_row = (run_id \in DOMAIN store),
                                !.failed_activity = f.failed_activity]
           \* the prompt is not reached without a budget, nor the
           \* knowledge retrieval without the operator's "y"
           reached == /\ left < 1 => confirm = "y"
                      /\ (left < 1 \/ confirm # "y") => knowledge = "ok"
       IN IF ~reached
          THEN FALSE
          ELSE IF left < 1
          THEN /\ store' = set_retry_count(store, run_id, 0)
               /\ pass' = [p0 EXCEPT !.outcome = "no_budget"]
               /\ NextFailure
               /\ UNCHANGED cyc
          ELSE IF confirm # "y"
          THEN /\ store' = set_retry_count(store, run_id, 0)
               /\ pass' = [p0 EXCEPT !.outcome = "declined",
                                     !.action = "no_rerun",
                                     !.notified = notify_failure(0)]
               /\ NextFailure
               /\ UNCHANGED cyc
          ELSE IF knowledge = "raise"
          THEN /\ pass' = [p0 EXCEPT !.outcome = "aborted"]
               /\ Escape
               /\ UNCHANGED <<store, cyc>>
          ELSE /\ pass' = [p0 EXCEPT !.outcome = "in_progress"]
               /\ retries_left' = left
               /\ attempt' = 0
               /\ pc' = "decide"
               /\ UNCHANGED <<store, cyc, failures, ai_result>>
    /\ scan' = <<>>
    /\ UNCHANGED <<RETRY_THRESHOLD, accepted>>
    /\ UNCHANGED <<created, storeVars, fb>>

\* make_decision, lines 90-109: one iteration of the retry loop
OracleAttempt(out) ==
    /\ pc = "decide"
    /\ LoopContinues(attempt)
    /\ IF Validates(out)
       THEN /\ ai_result' = [kind |-> out.kind, action |-> out.action]
            /\ pc' = "act"
            /\ UNCHANGED attempt
       ELSE /\ attempt' = attempt + 1
            /\ IF LoopContinues(attempt + 1)
               THEN /\ pc' = "decide"
                    /\ UNCHANGED ai_result
               ELSE /\ pc' = "act"
                    /\ ai_result' = FallbackDecision
    /\ UNCHANGED <<RETRY_THRESHOLD, store, failures, retries_left, scan,
                   cyc, pass, accepted>>
    /\ UNCHANGED <<created, storeVars, fb>>

\* process_failures, lines 109-135: solution retrieval, trigger,
\* notification, budget update
ProcessFinish(rag, token, http, db) ==
    /\ pc = "act"
    /\ LET f == Head(failures)
           run_id == f.run_id
           ex == IF ai_result.action # "no_rerun"
                 THEN execute_decision(store, ai_result, f, token, http,
                                       IF db = "raise_last" THEN "ok"
                                       ELSE db)
                 ELSE [store |-> store, requests |-> <<>>,
                       outcome |-> "not_triggered",
                       new_run_id |-> None, ret |-> None]
           \* the exception of execute_decision is caught at line 122
           caught == ex.outcome = "raised"
           \* no store write has been attempted before line 135
           untouched == ex.outcome \in {"not_triggered", "token_error"}
           p1 == [pass EXCEPT !.action = ai_result.action,
                              !.requests = ex.requests,
                              !.new_run_id = ex.new_run_id,
                              !.fault = (db # "ok")]
           cyc1 == [cyc EXCEPT ![run_id].createRun = @ + Len(ex.requests)]
           accepted1 == IF ex.outcome = "accepted" /\ accepted[run_id] = "no"
                        THEN [accepted EXCEPT ![run_id] = "now"]
                        ELSE accepted
           created1 == [created EXCEPT ![run_id] =
                          Min(@ + Len(ex.requests), MaxCreated)]
           aborts == rag = "raise" \/ ai_result.kind # "object"
           \* what is not reached is not drawn: no token request after an
           \* abort or for no_rerun, no createRun request without a token,
           \* and the only store call of a pass that sent no request is
           \* the one of line 135
           reached ==
              /\ (aborts \/ ai_result.action = "no_rerun") => token = "ok"
              /\ (aborts \/ untouched) => http = NoResponse
              /\ aborts => db = "ok"
              /\ untouched => db \in {"ok", "raise_last"}
       IN IF ~reached
          THEN FALSE
          ELSE IF aborts
          THEN /\ pass' = [pass EXCEPT !.outcome = "aborted"]
               /\ Escape
               /\ UNCHANGED <<store, cyc, accepted, created>>
          ELSE IF db = "raise" /\ caught
          THEN \* line 124 raises inside the handler
               /\ pass' = [p1 EXCEPT !.outcome = "store_raised",
                                     !.rerun_outcome = "error"]
               /\ cyc' = cyc1
               /\ created' = created1
               /\ Escape
               /\ UNCHANGED <<store, accepted>>
          ELSE IF (db # "ok" /\ untouched) \/ db = "raise_last"
          THEN \* line 135 raises after the notification
               /\ store' = ex.store
               /\ pass' = [p1 EXCEPT !.outcome = "store_raised",
                                     !.rerun_outcome = ex.ret,
                                     !.notified = notify_failure(0)]
               /\ cyc' = cyc1
               /\ created' = created1
               /\ accepted' = accepted1
               /\ Escape
          ELSE /\ store' = set_retry_count(
                              IF caught
                              THEN set_retry_count(ex.store, run_id, 0)
                              ELSE ex.store,
                              run_id, retries_left - 1)
               /\ pass' = [p1 EXCEPT !.outcome =
                                        IF caught THEN "store_error"
                                        ELSE ex.outcome,
                                     !.rerun_outcome =
                                        IF caught THEN "error" ELSE ex.ret,
                                     !.notified = notify_failure(0)]
               /\ cyc' = cyc1
               /\ created' = created1
               /\ accepted' = accepted1
               /\ NextFailure
    /\ UNCHANGED <<RETRY_THRESHOLD, scan>>
    /\ UNCHANGED <<storeVars, fb>>

Next ==
    \/ PollError
    \/ \E runs \in RunLists : \E acts \in [DOMAIN runs -> Activities] :
          PollScan(runs, acts)
    \/ Sleep
    \/ \E confirm \in {"y", "n"} : \E knowledge \in {"ok", "raise"} :
          ProcessBegin(confirm, knowledge)
    \/ \E out \in OracleOutputs : OracleAttempt(out)
    \/ \E rag \in {"ok", "raise"} : \E token \in {"ok", "raise"} :
          \E http \in HttpOutcomes : ProcessFinish(rag, token, http, "ok")

Spec == Init /\ [][Next]_vars

\* the same loop over a store whose writes can raise
NextFault ==
    \/ Next
    \/ \E rag \in {"ok", "raise"} : \E token \in {"ok", "raise"} :
          \E http \in HttpOutcomes : \E db \in StoreFaults \ {"ok"} :
             ProcessFinish(rag, token, http, db)

SpecFault == Init /\ [][NextFault]_vars

\* ------------------------------------- the store's methods, called directly
CallCreateOrUpdateRun(run_id, status, count) ==
    /\ store' = create_or_update_run(store, run_id, PipelineName, status,
                                     count)
    /\ call' = [NoCall EXCEPT !.op = "create_or_update_run",
                              !.run_id = run_id, !.status = status,
                              !.count = <<count>>, !.before = store]
    /\ UNCHANGED <<agentVars, lock, th, base, fb>>

CallSetRetryCount(run_id, count) ==
    /\ store' = set_retry_count(store, run_id, count)
    /\ call' = [NoCall EXCEPT !.op = "set_retry_count", !.run_id = run_id,
                              !.count = <<count>>, !.before = store]
    /\ UNCHANGED <<agentVars, lock, th, base, fb>>

CallUpdateStatus(run_id, status) ==
    /\ store' = update_status(store, run_id, status)
    /\ call' = [NoCall EXCEPT !.op = "update_status", !.run_id = run_id,
                              !.status = status, !.before = store]
    /\ UNCHANGED <<agentVars, lock, th, base, fb>>

CallGetRetryCount(run_id) ==
    /\ call' = [NoCall EXCEPT !.op = "get_retry_count", !.run_id = run_id,
                              !.before = store,
                              !.result = <<get_retry_count(store, run_id)>>]
    /\ UNCHANGED <<agentVars, store, lock, th, base, fb>>

CallGetStatus(run_id) ==
    /\ call' = [NoCall EXCEPT !.op = "get_status", !.run_id = run_id,
                              !.before = store,
                              !.result = <<get_status(store, run_id)>>]
    /\ UNCHANGED <<agentVars, store, lock, th, base, fb>>

NextStore ==
    \/ \E r \in RunIds : \E s \in StoreStatuses : \E n \in Counts :
          CallCreateOrUpdateRun(r, s, n)
    \/ \E r \in RunIds : \E n \in Counts : CallSetRetryCount(r, n)
    \/ \E r \in RunIds : \E s \in StoreStatuses : CallUpdateStatus(r, s)
    \/ \E r \in RunIds : CallGetRetryCount(r)
    \/ \E r \in RunIds : CallGetStatus(r)

SpecStore == Init /\ [][NextStore]_vars

\* ------------------- FeedbackAgent, called alone and from main.py's loop
\* process_decision_outcome(decision, failure_context), lines 15-65
FeedbackCall(run_id, action) ==
    /\ LET out == process_decision_outcome(store, action, run_id)
       IN /\ store' = out.store
          /\ fb' = [kind |-> "feedback", run_id |-> run_id,
                    action |-> action, before |-> store,
                    read |-> out.read, asked |-> out.asked,
                    alerts |-> out.alerts, raised |-> out.raised,
                    requests |-> <<>>]
    /\ UNCHANGED <<agentVars, storeVars>>

\* one iteration of main.py lines 33-36 for a failure and the decision
\* make_decision returned for it: execute_decision, then
\* process_decision_outcome
MainIteration(run_id, activity, action, token, http) ==
    /\ LET f == FailureContext(run_id, activity)
           ex == execute_decision(store, [kind |-> "object",
                                          action |-> action],
                                  f, token, http, "ok")
           out == process_decision_outcome(ex.store, action, run_id)
       IN /\ store' = out.store
          /\ fb' = [kind |-> "main", run_id |-> run_id, action |-> action,
                    before |-> store, read |-> out.read,
                    asked |-> out.asked, alerts |-> out.alerts,
                    raised |-> out.raised, requests |-> ex.requests]
    /\ UNCHANGED <<agentVars, storeVars>>

NextMain ==
    \/ \E r \in RunIds : \E a \in FeedbackActions : FeedbackCall(r, a)
    \/ \E r \in RunIds : \E activity \in Activities :
          \E a \in KnownActions \cup {"retry_all"} :
             \E token \in {"ok", "raise"} : \E http \in HttpOutcomes :
                MainIteration(r, activity, a, token, http)

SpecMain == Init /\ [][NextMain]_vars

\* ------------------------- concurrent callers of one ContextStoreSQLite
\* `with self._lock, self.conn:` entered: thread t holds the lock
Acquire(t, o) ==
    /\ th[t].pc = "idle"
    /\ LockFree(lock)
    /\ lock' = t
    /\ th' = [th EXCEPT ![t] = [IdleThread EXCEPT !.pc = "stmt", !.op = o]]
    /\ UNCHANGED <<agentVars, store, call, base, fb>>

\* the first (for create_or_update_run and set_retry_count the only)
\* statement of the method
Statement(t) ==
    /\ th[t].pc = "stmt"
    /\ LET o == th[t].op IN
       IF o.op = "update_status"
       THEN /\ store' = sql_update(store, o.run_id, o.status)
            /\ th' = [th EXCEPT ![t].pc =
                         IF o.run_id \in DOMAIN store THEN "exit"
                         ELSE "insert"]
       ELSE /\ store' = Apply(store, o)
            /\ th' = [th EXCEPT ![t].pc = "exit"]
    /\ UNCHANGED <<agentVars, call, lock, base, fb>>

\* update_status, lines 73-77: rowcount was 0; the INSERT raises
\* IntegrityError when the primary key exists by now
Insert(t) ==
    /\ th[t].pc = "insert"
    /\ LET o == th[t].op IN
       IF o.run_id \in DOMAIN store
       THEN /\ th' = [th EXCEPT ![t].pc = "exit", ![t].failed = TRUE]
            /\ UNCHANGED store
       ELSE /\ store' = sql_insert(store, o.run_id, o.status)
            /\ th' = [th EXCEPT ![t].pc = "exit"]
    /\ UNCHANGED <<agentVars, call, lock, base, fb>>

\* the `with` block is left: commit (or rollback) and release of the lock
Exit(t) ==
    /\ th[t].pc = "exit"
    /\ lock' = None
    /\ th' = [th EXCEPT ![t].pc = "done"]
    /\ UNCHANGED <<agentVars, store, call, base, fb>>

\* both calls returned: the threads make their next calls
NextCalls ==
    /\ \A t \in Threads : th[t].pc = "done"
    /\ th' = [t \in Threads |-> IdleThread]
    /\ base' = store
    /\ UNCHANGED <<agentVars, store, call, lock, fb>>

NextConc ==
    \/ \E t \in Threads : \E o \in StoreOps : Acquire(t, o)
    \/ \E t \in Threads : Statement(t)
    \/ \E t \in Threads : Insert(t)
    \/ \E t \in Threads : Exit(t)
    \/ NextCalls

SpecConc == Init /\ [][NextConc]_vars

TypeOK ==
    /\ RETRY_THRESHOLD \in Thresholds
    /\ pc \in {"poll", "begin", "decide", "act", "sleep", "escaped"}
    /\ DOMAIN store \subseteq RunIds
    /\ Len(failures) <= MaxRuns

\* ------------------------------------------------------------------ claims
RunIdsOf(fs) == {fs[k].run_id : k \in DOMAIN fs}

\* C1: a run reported Failed whose stored status reads retrying, succeeded,
\* failed_no_retry or superseded is not added to the failures list; a run
\* whose every entry of the cycle was skipped this way is never handed to
\* process_failures in that cycle (no pass, hence no oracle call, trigger
\* call or store write, is made for it).
C1_StatusSkip ==
    /\ \A i \in DOMAIN scan :
          (/\ scan[i].status = "Failed"
           /\ scan[i].db_status \in
                {"retrying", "succeeded", "failed_no_retry", "superseded"})
          => scan[i].verdict = "skip_status"
    /\ \A r \in RunIds :
          cyc[r].skipped =>
             /\ r \notin RunIdsOf(failures)
             /\ pass.run_id # r
             /\ cyc[r].createRun = 0

C1_Witness ==
    \E i \in DOMAIN scan :
       /\ scan[i].status = "Failed"
       /\ scan[i].db_status = "retrying"
       /\ scan[i].verdict = "skip_status"
       /\ cyc[scan[i].runId].skipped

\* C2: once a createRun request referencing a run was accepted (status
\* retrying stored) in an earlier cycle, and the platform has reported the
\* run only as Failed since, no pass issues another createRun request
\* referencing it.
C2_NoSecondCreateRun ==
    \A r \in RunIds :
       accepted[r] = "before" => ~(pass.run_id = r /\ pass.requests # <<>>)

\* C3: with RETRY_THRESHOLD >= 1, a run reported Failed whose stored
\* retry_count is 0 is not emitted by poll, whatever its stored status.
C3_ZeroBudgetSkipped ==
    \A i \in DOMAIN scan :
       (scan[i].status = "Failed" /\ scan[i].rc_read = <<0>>)
       => scan[i].verdict # "emitted"

\* C4: from one state to the next the stored retry_count of a run never
\* increases, except when a Succeeded observation resets it to
\* RETRY_THRESHOLD (creation of the record is not an increase).
C4_RetryCountMonotone ==
    [][\A r \in RunIds :
          (/\ r \in DOMAIN store /\ r \in DOMAIN store'
           /\ store[r].retry_count # SqlNull
           /\ store'[r].retry_count # SqlNull
           /\ store'[r].retry_count[1] > store[r].retry_count[1])
          => (/\ store'[r].retry_count[1] = RETRY_THRESHOLD
              /\ SucceededIn(scan', r))]_vars

\* C5: after poll observes a run as Succeeded the run's record holds
\* retry_count = RETRY_THRESHOLD and status succeeded.
C5_SuccessOverwrite ==
    \A i \in DOMAIN scan :
       scan[i].verdict = "success"
       => (/\ scan[i].rc_after = <<RETRY_THRESHOLD>>
           /\ scan[i].status_after = "succeeded")

\* C6: a run whose record, at the start of a cycle, is the one written by
\* poll's success path (or holds failed_no_retry) is not emitted when that
\* cycle observes it as Failed.
C6_TerminalStops ==
    \A i \in DOMAIN scan :
       (/\ scan[i].status = "Failed"
        /\ scan[i].start_status \in
              {SucceededStatus, "succeeded", "failed_no_retry"})
       => scan[i].verdict # "emitted"

\* C7: a pass of process_failures on a run with no prior record, with the
\* retry approved, decision partial_rerun and the request accepted, leaves
\* retry_count = RETRY_THRESHOLD - 1 and status retrying, and has issued
\* exactly one createRun request (isRecovery true, resuming at the failed
\* activity when it is known) and exactly one notification.
C7_FirstPartialRerun ==
    (/\ pass.outcome = "accepted"
     /\ pass.action = "partial_rerun"
     /\ ~pass.had_row)
    => LET r == pass.run_id IN
       /\ r \in DOMAIN store
       /\ store[r].retry_count = <<RETRY_THRESHOLD - 1>>
       /\ store[r].status = "retrying"
       /\ Len(pass.requests) = 1
       /\ pass.requests[1].referencePipelineRunId = r
       /\ pass.requests[1].isRecovery = "true"
       /\ (pass.failed_activity # None
             => pass.requests[1].startActivityName = pass.failed_activity)
       /\ pass.notified = 1

C7_Witness ==
    /\ pass.outcome = "accepted"
    /\ pass.action = "partial_rerun"
    /\ ~pass.had_row
    /\ pass.failed_activity # None
    /\ pass.requests[1].startActivityName = pass.failed_activity

\* C8: when the decision of the cycle's last pass is no_rerun, then at the
\* end of the cycle the run's stored status is failed_no_retry, its stored
\* retry_count is 0 and one notification was sent.
C8_NoRerunTerminal ==
    (/\ pc = "sleep"
     /\ pass.action = "no_rerun"
     /\ pass.outcome = "not_triggered")
    => LET r == pass.run_id IN
       /\ r \in DOMAIN store
       /\ store[r].status = "failed_no_retry"
       /\ store[r].retry_count = <<0>>
       /\ pass.notified = 1

\* C9: after the operator declines the retry prompt the run's stored
\* retry_count is 0 and its stored status is failed_no_retry.
C9_DeclineTerminal ==
    pass.outcome = "declined"
    => LET r == pass.run_id IN
       /\ r \in DOMAIN store
       /\ store[r].retry_count = <<0>>
       /\ store[r].status = "failed_no_retry"

\* C10: every JSON object make_decision returns as a decision has an action
\* that is one of full_rerun, partial_rerun, no_rerun.
C10_DecisionValidated ==
    (pc = "act" /\ ai_result.kind = "object")
    => ai_result.action \in KnownActions

\* C11: make_decision calls the oracle at most max_retries times and never
\* lets an oracle failure out: every call is made with fewer than
\* max_retries failed calls behind it, a call either returns the response
\* that passed the check of lines 96-98 (the first one to do so) or counts
\* one more failed attempt, and after max_retries failed attempts the
\* function returns the synthetic decision whose action is no_rerun.
C11_BoundedOracle ==
    [][pc = "decide" =>
         /\ attempt < max_retries
         /\ pc' \in {"decide", "act"}
         /\ pc' = "decide" => attempt' = attempt + 1 /\ attempt' < max_retries
         /\ pc' = "act" =>
               IF attempt' = attempt
               THEN ai_result'.kind \in {"object", "array"}
               ELSE /\ attempt' = max_retries
                    /\ attempt' = attempt + 1
                    /\ ai_result' = FallbackDecision
                    /\ ai_result'.action = "no_rerun"]_vars

C11_Witness ==
    /\ pc = "act"
    /\ attempt = max_retries
    /\ ai_result = FallbackDecision

\* C12: a pass sends a createRun request only when the decision's action is
\* full_rerun or partial_rerun.
C12_OnlyKnownRerun ==
    pass.requests # <<>> => pass.action \in {"full_rerun", "partial_rerun"}

\* C13: every createRun request carries the original run id as
\* referencePipelineRunId; for partial_rerun it has isRecovery=true and
\* startActivityName = the failed activity when that is known, otherwise
\* startFromFailure=true, never both; for full_rerun it has isRecovery=false
\* and neither startActivityName nor startFromFailure.
C13_RequestParams ==
    \A k \in DOMAIN pass.requests :
       LET q == pass.requests[k] IN
       /\ q.referencePipelineRunId = pass.run_id
       /\ pass.action = "partial_rerun" =>
             /\ q.isRecovery = "true"
             /\ IF pass.failed_activity # None
                THEN /\ q.startActivityName = pass.failed_activity
                     /\ q.startFromFailure = None
                ELSE /\ q.startActivityName = None
                     /\ q.startFromFailure = "true"
       /\ pass.action = "full_rerun" =>
             /\ q.isRecovery = "false"
             /\ q.startActivityName = None
             /\ q.startFromFailure = None

C13_Witness ==
    /\ pass.action = "partial_rerun"
    /\ pass.failed_activity # None
    /\ Len(pass.requests) = 1
    /\ pass.requests[1].startActivityName = pass.failed_activity

\* C14: when the platform answered the createRun request with 200, 201 or
\* 202 the run's stored status is retrying, and when it also named the new
\* run, execute_decision returned that new run id to process_failures.
C14_AcceptedReturnsRunId ==
    /\ pass.outcome \in {"accepted", "accepted_unparsed"}
          => get_status(store, pass.run_id) = "retrying"
    /\ pass.outcome = "accepted"
          => /\ pass.new_run_id # None
             /\ pass.rerun_outcome = pass.new_run_id

\* C15: when execute_decision was called with a rerun action and the rerun
\* was not accepted, the stored status is failed_rerun_error after a
\* rejection and failed_rerun_exception after a transport failure (the
\* token request included), and an error outcome was returned.
C15_NotAcceptedRecorded ==
    /\ pass.outcome = "rejected"
          => get_status(store, pass.run_id) = "failed_rerun_error"
    /\ pass.outcome \in {"exception", "token_error"}
          => get_status(store, pass.run_id) = "failed_rerun_exception"
    /\ pass.outcome \in {"rejected", "exception", "token_error"}
          => pass.rerun_outcome # None

\* C16: update_status on a run without a record adds exactly that run's
\* record, with the given status, and leaves every other record alone; on a
\* run with a record it changes the status only: retry_count and
\* pipeline_id of the record, and every other record, stay as they were.
C16_UpdateStatusFrame ==
    call.op = "update_status" =>
       LET r == call.run_id
           b == call.before
       IN /\ r \in DOMAIN store
          /\ store[r].status = call.status
          /\ DOMAIN store = DOMAIN b \cup {r}
          /\ \A q \in DOMAIN b \ {r} : store[q] = b[q]
          /\ r \in DOMAIN b =>
                /\ store[r].retry_count = b[r].retry_count
                /\ store[r].pipeline_id = b[r].pipeline_id

C16_Witness ==
    /\ call.op = "update_status"
    /\ call.run_id \in DOMAIN call.before
    /\ call.before[call.run_id].retry_count # SqlNull
    /\ call.before[call.run_id].pipeline_id # None
    /\ call.before[call.run_id].status # call.status
    /\ store[call.run_id].status = call.status

\* C18: when two threads have each completed one of create_or_update_run,
\* set_retry_count and update_status on one store instance, neither call
\* failed and the table equals the result of applying the two methods one
\* after the other in one of the two orders; two update_status calls for a
\* run without a record leave exactly one record for it.
C18_Serializable ==
    (\A t \in Threads : th[t].pc = "done") =>
       /\ \A t \in Threads : ~th[t].failed
       /\ \/ store = Apply(Apply(base, th["t1"].op), th["t2"].op)
          \/ store = Apply(Apply(base, th["t2"].op), th["t1"].op)
       /\ \A t \in Threads :
             th[t].op.op = "update_status" => th[t].op.run_id \in DOMAIN store

C18_Witness ==
    /\ \A t \in Threads :
          /\ th[t].pc = "done"
          /\ th[t].op.op = "update_status"
          /\ th[t].op.run_id = th["t1"].op.run_id
          /\ ~th[t].failed
    /\ th["t1"].op.run_id \notin DOMAIN base
    /\ th["t1"].op.status # th["t2"].op.status
    /\ th["t1"].op.run_id \in DOMAIN store

\* C17: right after process_failures called set_retry_count(run_id, 0) for
\* a declined run (line 94), get_retry_count(run_id) returns 0, whether or
\* not the run had a record.
C17_SetThenGet ==
    pass.outcome = "declined" => get_retry_count(store, pass.run_id) = <<0>>

\* C19 as stated: no notification is sent for a run in the pass in which its
\* rerun request was accepted.
C19_NoNotifyOnAccepted ==
    pass.outcome = "accepted" => pass.notified = 0

\* C19: every pass of process_failures that reaches line 127 or line 96
\* sends exactly one notification for its run, the pass whose rerun request
\* was accepted included; a pass that skips the run for want of budget or
\* is aborted by an exception sends none.
C19_OneNotificationPerPass ==
    /\ pass.outcome \in {"declined", "not_triggered", "token_error",
                         "exception", "rejected", "accepted_unparsed",
                         "accepted", "store_error"}
          => pass.notified = 1
    /\ pass.outcome \in {"none", "query_failed", "no_budget", "in_progress",
                         "aborted"}
          => pass.notified = 0

C19_Witness ==
    /\ pass.outcome = "accepted"
    /\ accepted[pass.run_id] = "now"
    /\ pass.notified = 1

\* C20: a poll cycle whose token request or run query fails writes nothing
\* to the store, builds no FailureContext, makes no oracle or trigger call
\* and goes to poll's own sleep (the error does not leave poll); the step
\* after that sleep is the start of a new cycle with the store as it was.
C20_QueryFailureContained ==
    [][/\ (pc = "poll" /\ pass'.outcome = "query_failed") =>
             /\ pc' = "sleep"
             /\ store' = store
             /\ failures' = <<>>
             /\ attempt' = 0
             /\ \A r \in RunIds : cyc'[r].createRun = 0
             /\ pass'.notified = 0
       /\ pass.outcome = "query_failed" =>
             /\ pc' = "poll"
             /\ store' = store
             /\ failures' = <<>>]_vars

C20_Witness ==
    /\ pass.outcome = "query_failed"
    /\ pc = "sleep"
    /\ store # <<>>
    /\ failures = <<>>

\* C23: with RETRY_THRESHOLD = 0 poll emits no FailureContext, no pass of
\* process_failures is made and no createRun request is issued, whatever
\* the platform reports.
C23_ZeroThresholdDisables ==
    RETRY_THRESHOLD = 0 =>
       /\ failures = <<>>
       /\ \A i \in DOMAIN scan : scan[i].verdict # "emitted"
       /\ pc \in {"poll", "sleep"}
       /\ pass.run_id = None
       /\ pass.requests = <<>>
       /\ \A r \in RunIds : cyc[r].createRun = 0

C23_Witness ==
    /\ RETRY_THRESHOLD = 0
    /\ \E i \in DOMAIN scan :
          /\ scan[i].status = "Failed"
          /\ scan[i].db_status = None
          /\ scan[i].verdict = "skip_budget"

\* C21: when the processing of one failure raises out of process_failures,
\* no other failure of the cycle is left unprocessed: the failure that
\* raised was the last one of the cycle's list.
C21_SiblingsProcessed ==
    [][(pc \in {"begin", "act"} /\ pc' = "escaped")
          => Len(failures) <= 1]_vars

\* C28: the failures list of a cycle holds each run_id at most once, and at
\* most one createRun request is issued for a run_id in a cycle.
C28_EmittedOncePerCycle ==
    /\ \A i \in DOMAIN failures : \A j \in DOMAIN failures :
          i # j => failures[i].run_id # failures[j].run_id
    /\ \A r \in RunIds : cyc[r].createRun <= 1

\* C22: when a store operation failed during the processing of a run, the
\* exception left process_failures for the loop's top-level handler: the
\* pass did not go on, and the run's stored status is what it was.
C22_StoreErrorPropagates ==
    pass.fault =>
       /\ pass.outcome = "store_raised"
       /\ pc = "escaped"

\* C24: process_decision_outcome with action full_rerun or partial_rerun
\* on a run whose budget read is r > 0 leaves get_retry_count(run_id) = r - 1
\* and the stored status retrying, whether or not the run had a record.
C24_FeedbackConsumesOne ==
    (/\ fb.kind = "feedback"
     /\ fb.action \in {"full_rerun", "partial_rerun"}
     /\ fb.read # SqlNull
     /\ fb.read[1] > 0)
    => /\ get_retry_count(store, fb.run_id) = <<fb.read[1] - 1>>
       /\ get_status(store, fb.run_id) = "retrying"

\* C25: with RETRY_THRESHOLD >= 1, process_decision_outcome with action
\* full_rerun or partial_rerun on a run whose stored retry_count is 0
\* leaves retry_count 0, stores failed_no_retry and sends one alert; and
\* when it is called after execute_decision as in main.py's loop, no
\* createRun request was sent for that run.
C25_ExhaustedEscalates ==
    (/\ RETRY_THRESHOLD >= 1
     /\ fb.action \in {"full_rerun", "partial_rerun"}
     /\ fb.run_id \in DOMAIN fb.before
     /\ fb.before[fb.run_id].retry_count = <<0>>)
    => /\ store[fb.run_id].retry_count = <<0>>
       /\ store[fb.run_id].status = "failed_no_retry"
       /\ fb.alerts = 1
       /\ fb.requests = <<>>

\* C26: the operator is asked for confirmation only for a run whose budget
\* still equals RETRY_THRESHOLD: when the first pass of a cycle asks, the
\* budget it read is RETRY_THRESHOLD.
C26_ConfirmFirstAttemptOnly ==
    [][(/\ pc = "begin"
        /\ scan # <<>>
        /\ pass'.outcome \in {"declined", "aborted", "in_progress"})
          => PyOr(get_retry_count(store, Head(failures).run_id),
                  RETRY_THRESHOLD) = RETRY_THRESHOLD]_vars

\* C27: the number of createRun requests sent for a run since the start
\* never exceeds RETRY_THRESHOLD; in particular, for a run that was never
\* reported Succeeded and whose last rerun request the platform rejected,
\* a pass sends the cycle's first request for it only while fewer than
\* RETRY_THRESHOLD requests have been sent for it.
C27_BudgetBoundsCreateRuns ==
    [][\A r \in RunIds :
          (/\ cyc'[r].createRun > 0
           /\ cyc[r].createRun = 0
           /\ r \in DOMAIN store
           /\ store[r].status = "failed_rerun_error"
           /\ store[r].pipeline_id = None)
             => created[r] < RETRY_THRESHOLD]_vars

\* C29: with RETRY_THRESHOLD >= 1, get_retry_count returns an integer in
\* 0..RETRY_THRESHOLD for every run_id, never a negative number and never
\* NULL.
C29_RetryCountInRange ==
    RETRY_THRESHOLD >= 1 =>
       \A r \in RunIds :
          \E n \in 0..RETRY_THRESHOLD : get_retry_count(store, r) = <<n>>

====
